---------------------------- MODULE Spec2Model ----------------------------
(* A model of src/src/init.ts: the `init` command of create-roblox-ts.       *)
(* init probes the host's tools, resolves its options from flags and prompt  *)
(* answers, checks the working directory for conflicting paths and then runs *)
(* the scaffold pipeline, one awaited operation after the other.             *)
(*                                                                           *)
(* JavaScript values are written as strings: "undefined", "true", "false",   *)
(* and the enum members by their string values.  A path is the sequence of   *)
(* its segments; an absolute path under the working directory starts with    *)
(* the segment Cwd.                                                          *)
EXTENDS Naturals, Sequences, FiniteSets

VARIABLES
    host,            \* per tool, how lookpath(tool) settles on this host
    argv,            \* the flags yargs parsed (InitOptions)
    initMode,        \* the InitMode the sub-command handler passes to init
    templateEntries, \* per template, fs.readdir of TEMPLATES_DIR/<template>
    fs,              \* the working directory when init starts: path -> kind
    pc,              \* where init stands
    avail,           \* [npmAvailable, pnpmAvailable, yarnAvailable, gitAvailable]
    qi,              \* index of the prompt question that is next
    answers,         \* what prompts() has collected so far
    prompted,        \* the questions that were shown to the user
    cfg,             \* the destructured result of lines 111-125
    pathValues,      \* init.ts:230
    pi,              \* index into pathValues of the conflict loop
    existingPaths,   \* init.ts:235
    step,            \* the pipeline step that is running
    opi,             \* index of the next operation of that step
    ops,             \* every command and file operation invoked, in order
    yamlData,        \* nodeLinker of the parsed .yarnrc.yml (init.ts:329)
    error,           \* the error init was rejected with
    exitCode,        \* the statuses process.exit was called with: none, or one
    pkgJson,         \* package.json as fs.readJson returned it (init.ts:262)
    written          \* the JSON documents fs.outputFile was handed

vars == <<host, argv, initMode, templateEntries, fs, pc, avail, qi, answers,
          prompted, cfg, pathValues, pi, existingPaths, step, opi, ops,
          yamlData, error, exitCode, pkgJson, written>>

-----------------------------------------------------------------------------
(* JavaScript values and operators                                           *)

Undef == "undefined"
Null == "null"
T == "true"
F == "false"
JSBool == {T, F}

\* a ?? b
Coalesce(a, b) == IF a = Undef THEN b ELSE a

\* a && b
AndAlso(a, b) == IF a = Undef \/ a = F THEN a ELSE b

\* a destructuring default: `name = dflt` applies when the property is undefined
Default(v, dflt) == IF v = Undef THEN dflt ELSE v

Truthy(v) == v # Undef /\ v # F

Range(s) == {s[i] : i \in 1..Len(s)}

RECURSIVE SelectSeq2(_, _)
\* Array.prototype.filter on a sequence of strings, kept in order
SelectSeq2(s, keep) ==
    IF s = <<>> THEN <<>>
    ELSE IF Head(s) \in keep THEN <<Head(s)>> \o SelectSeq2(Tail(s), keep)
         ELSE SelectSeq2(Tail(s), keep)

-----------------------------------------------------------------------------
(* Enums and the package-manager registry                                    *)

\* enum InitMode; Place is only an alias of the game sub-command (line 472),
\* whose handler passes InitMode.Game
InitMode == [None |-> "none", Game |-> "game", Place |-> "place",
             Model |-> "model", Plugin |-> "plugin", Package |-> "package"]

\* the modes a handler can pass to init (lines 471-486)
HandlerModes == {InitMode.None, InitMode.Game, InitMode.Model,
                 InitMode.Plugin, InitMode.Package}

\* the choices of the template prompt, in order (lines 131-136)
TemplateChoices == <<InitMode.Game, InitMode.Model, InitMode.Plugin,
                     InitMode.Package>>

PackageManager == [NPM |-> "npm", Yarn |-> "yarn", Yarn3 |-> "yarn3",
                   PNPM |-> "pnpm"]

\* Object.values(PackageManager), in declaration order
PackageManagerValues == <<PackageManager.NPM, PackageManager.Yarn,
                          PackageManager.Yarn3, PackageManager.PNPM>>

PackageManagers == Range(PackageManagerValues)

packageManagerCommands ==
    [pm \in PackageManagers |->
        CASE pm = PackageManager.NPM ->
               [init |-> "npm init -y",
                devInstall |-> "npm install --silent -D",
                build |-> "npm run build"]
          [] pm = PackageManager.Yarn ->
               [init |-> "yarn init -y",
                devInstall |-> "yarn add --silent -D",
                build |-> "yarn run build"]
          [] pm = PackageManager.Yarn3 ->
               [init |-> "yarn init -y",
                devInstall |-> "yarn add --silent -D",
                build |-> "yarn run build"]
          [] pm = PackageManager.PNPM ->
               [init |-> "pnpm init",
                devInstall |-> "pnpm install --silent -D",
                build |-> "pnpm run build"]]

-----------------------------------------------------------------------------
(* Tool Prober (lines 94-109)                                                *)

Tools == <<"npm", "pnpm", "yarn", "git">>

\* how one lookpath promise settles: fulfilled with a path, fulfilled with
\* undefined (not on the search path), or rejected
Found    == [status |-> "fulfilled", value |-> "path"]
NotFound == [status |-> "fulfilled", value |-> Undef]
Rejected == [status |-> "rejected", value |-> Undef]
Settled  == {Found, NotFound, Rejected}

\* (v) => v.status === "fulfilled" ? v.value !== undefined : true
Available(v) ==
    IF v.status = "fulfilled"
    THEN (IF v.value # Undef THEN T ELSE F)
    ELSE T

NoAvail == [npm |-> Undef, pnpm |-> Undef, yarn |-> Undef, git |-> Undef]

\* the destructured array of line 94
ProbeAll(h) == [npm  |-> Available(h["npm"]),
                pnpm |-> Available(h["pnpm"]),
                yarn |-> Available(h["yarn"]),
                git  |-> Available(h["git"])]

packageManagerExistance(a) ==
    [pm \in PackageManagers |->
        CASE pm = PackageManager.NPM   -> a.npm
          [] pm = PackageManager.PNPM  -> a.pnpm
          [] pm = PackageManager.Yarn  -> a.yarn
          [] pm = PackageManager.Yarn3 -> a.yarn]

packageManagerCount(a) ==
    Cardinality({pm \in PackageManagers : packageManagerExistance(a)[pm] = T})

\* lines 94-98: all probes are awaited jointly before init goes on
Probe ==
    /\ pc = "probe"
    /\ avail' = ProbeAll(host)
    /\ pc' = "prompt"
    /\ UNCHANGED <<exitCode, pkgJson, written,
                   host, argv, initMode, templateEntries, fs, qi, answers,
                   prompted, cfg, pathValues, pi, existingPaths, step, opi,
                   ops, yamlData, error>>

-----------------------------------------------------------------------------
(* Option Resolver (lines 111-200)                                           *)

Questions == <<"template", "git", "eslint", "prettier", "vscode",
               "packageManager">>

NoAnswers == [template |-> Undef, git |-> Undef, eslint |-> Undef,
              prettier |-> Undef, vscode |-> Undef, packageManager |-> Undef]

\* the `type` callback of the template question (line 128)
templateType(mode) ==
    IF mode = InitMode.None THEN "select" ELSE F

\* a git question that is asked whether or not the probe found git
gitTypeUngated(a, av) ==
    IF a.git = Undef /\ a.yes = Undef THEN "confirm" ELSE F

\* the `type` callback of the git question (lines 143-144): asked only
\* when neither flag is given and the probe found git
gitType(a, av) ==
    IF a.git = Undef /\ a.yes = Undef /\ Truthy(av.git)
    THEN "confirm" ELSE F

\* a toggle question shown whenever --yes is not truthy
toggleTypeFalsyYes(flag, a) ==
    IF flag = Undef /\ ~Truthy(a.yes) THEN "confirm" ELSE F

\* the `type` callback of the eslint, prettier and vscode questions
\* (lines 153, 162, 171)
toggleType(flag, a) ==
    IF flag = Undef /\ a.yes = Undef THEN "confirm" ELSE F

\* a package manager question that does not look at --yes
packageManagerTypeIgnoresYes(a, av) ==
    IF a.packageManager = Undef /\ packageManagerCount(av) > 1
    THEN "select" ELSE F

\* the `type` callback of the packageManager question (lines 181-183)
packageManagerType(a, av) ==
    IF a.packageManager = Undef /\ packageManagerCount(av) > 1
       /\ a.yes = Undef
    THEN "select" ELSE F

\* the `type` callback of each question: a prompt type, or a falsy value
\* that makes prompts skip the question
QuestionType(q, av, mode, a) ==
    CASE q = "template" -> templateType(mode)
      [] q = "git" -> gitType(a, av)
      [] q = "eslint" -> toggleType(a.eslint, a)
      [] q = "prettier" -> toggleType(a.prettier, a)
      [] q = "vscode" -> toggleType(a.vscode, a)
      [] q = "packageManager" -> packageManagerType(a, av)

\* a choice list that offers every package manager
ChoicesUnfiltered(q, av) ==
    CASE q = "template" -> Range(TemplateChoices)
      [] q = "packageManager" -> Range(PackageManagerValues)
      [] OTHER -> JSBool

\* the values a shown question can be answered with
Choices(q, av) ==
    CASE q = "template" -> Range(TemplateChoices)
      [] q = "packageManager" ->
           Range(SelectSeq2(PackageManagerValues,
                            {pm \in PackageManagers :
                                packageManagerExistance(av)[pm] = T}))
      [] OTHER -> JSBool

\* prompts skips a question whose type is falsy
PromptSkip ==
    /\ pc = "prompt"
    /\ qi <= Len(Questions)
    /\ ~Truthy(QuestionType(Questions[qi], avail, initMode, argv))
    /\ qi' = qi + 1
    /\ UNCHANGED <<exitCode, pkgJson, written,
                   host, argv, initMode, templateEntries, fs, pc, avail,
                   answers, prompted, cfg, pathValues, pi, existingPaths,
                   step, opi, ops, yamlData, error>>

\* the user answers the question that is shown
PromptAnswer ==
    /\ pc = "prompt"
    /\ qi <= Len(Questions)
    /\ Truthy(QuestionType(Questions[qi], avail, initMode, argv))
    /\ \E v \in Choices(Questions[qi], avail) :
          answers' = [answers EXCEPT ![Questions[qi]] = v]
    /\ prompted' = prompted \cup {Questions[qi]}
    /\ qi' = qi + 1
    /\ UNCHANGED <<exitCode, pkgJson, written,
                   host, argv, initMode, templateEntries, fs, pc, avail, cfg,
                   pathValues, pi, existingPaths, step, opi, ops, yamlData,
                   error>>

\* a cancel handler that returns instead of exiting: prompts stops asking
\* and resolves with the answers collected so far
onCancelReturns ==
    [pc |-> "prompt", qi |-> Len(Questions) + 1, status |-> 0]

\* onCancel is process.exit(1) (line 199): the process is gone, with exit
\* status 1, before prompts can return to init
onCancel ==
    [pc |-> "exit1", qi |-> qi, status |-> 1]

\* the user aborts the question that is shown
PromptCancel ==
    /\ pc = "prompt"
    /\ qi <= Len(Questions)
    /\ Truthy(QuestionType(Questions[qi], avail, initMode, argv))
    /\ prompted' = prompted \cup {Questions[qi]}
    /\ pc' = onCancel.pc
    /\ qi' = onCancel.qi
    /\ exitCode' = {onCancel.status}
    /\ UNCHANGED <<pkgJson, written,
                   host, argv, initMode, templateEntries, fs, avail,
                   answers, cfg, pathValues, pi, existingPaths, step, opi,
                   ops, yamlData, error>>

NoCfg == [template |-> Undef, git |-> Undef, eslint |-> Undef,
          prettier |-> Undef, vscode |-> Undef, packageManager |-> Undef]

\* the version-control default without the check that git is available
gitDefaultUngated(a, av) == Coalesce(a.git, Coalesce(a.yes, F))

\* a toggle default in which --yes is looked at before the toggle's own flag
toggleDefaultYesFirst(flag, a) == Coalesce(a.yes, Coalesce(flag, F))

\* the defaults of the destructuring pattern, lines 112-117
gitDefault(a, av) ==
    Coalesce(a.git, Coalesce(AndAlso(a.yes, av.git), F))

toggleDefault(flag, a) == Coalesce(flag, Coalesce(a.yes, F))

packageManagerDefault(a) == Coalesce(a.packageManager, PackageManager.NPM)

Destructure(ans, a, av, mode) ==
    [template       |-> Default(ans.template, mode),
     git            |-> Default(ans.git, gitDefault(a, av)),
     eslint         |-> Default(ans.eslint, toggleDefault(a.eslint, a)),
     prettier       |-> Default(ans.prettier, toggleDefault(a.prettier, a)),
     vscode         |-> Default(ans.vscode, toggleDefault(a.vscode, a)),
     packageManager |-> Default(ans.packageManager, packageManagerDefault(a))]

\* prompts() resolves with the answers and the pattern is destructured
Resolve ==
    /\ pc = "prompt"
    /\ qi > Len(Questions)
    /\ cfg' = Destructure(answers, argv, avail, initMode)
    /\ pc' = "paths"
    /\ UNCHANGED <<exitCode, pkgJson, written,
                   host, argv, initMode, templateEntries, fs, avail, qi,
                   answers, prompted, pathValues, pi, existingPaths, step,
                   opi, ops, yamlData, error>>

-----------------------------------------------------------------------------
(* Paths and the working directory                                           *)

\* process.cwd(), an absolute path
Cwd == <<"/cwd">>

\* path.join(base, ...segments)
PathJoin(base, segments) == base \o segments

IsAbsolute(p) == p # <<>> /\ p[1] = Cwd[1]

\* what the file system resolves a path to: a relative path is taken from
\* process.cwd()
PathResolve(p) == IF IsAbsolute(p) THEN p ELSE PathJoin(Cwd, p)

\* path.relative(from, to) for a path below `from`
PathRelative(from, to) == SubSeq(PathResolve(to), Len(from) + 1,
                                 Len(PathResolve(to)))

\* lines 203-217
paths ==
    [packageJson     |-> PathJoin(Cwd, <<"package.json">>),
     packageLockJson |-> PathJoin(Cwd, <<"package-lock.json">>),
     yarnncOld       |-> PathJoin(Cwd, <<".yarnrc">>),
     yarnnc          |-> PathJoin(Cwd, <<".yarnrc.yml">>),
     tsconfig        |-> PathJoin(Cwd, <<"tsconfig.json">>),
     gitignore       |-> PathJoin(Cwd, <<".gitignore">>),
     gitattributes   |-> PathJoin(Cwd, <<".gitattributes">>),
     eslintrc        |-> PathJoin(Cwd, <<".eslintrc.yml">>),
     eslintrcIgnore  |-> PathJoin(Cwd, <<".eslintignore">>),
     prettierrc      |-> PathJoin(Cwd, <<".prettierrc.yml">>),
     prettierIgnore  |-> PathJoin(Cwd, <<".prettierignore">>),
     settings        |-> PathJoin(Cwd, <<".vscode", "settings.json">>),
     extensions      |-> PathJoin(Cwd, <<".vscode", "extensions.json">>)]

\* the list without the two editor files
PathsValuesNoEditor ==
    <<paths.packageJson, paths.packageLockJson, paths.yarnncOld, paths.yarnnc,
      paths.tsconfig, paths.gitignore, paths.gitattributes, paths.eslintrc,
      paths.eslintrcIgnore, paths.prettierrc, paths.prettierIgnore>>

\* Object.values(paths): the values in insertion order
PathsValues ==
    <<paths.packageJson, paths.packageLockJson, paths.yarnncOld, paths.yarnnc,
      paths.tsconfig, paths.gitignore, paths.gitattributes, paths.eslintrc,
      paths.eslintrcIgnore, paths.prettierrc, paths.prettierIgnore,
      paths.settings, paths.extensions>>

\* __dirname of the compiled init module, an absolute path
Dirname == <<"/pkg", "out">>

\* lines 219-226
configTemplate ==
    [gitignore      |-> PathJoin(Dirname, <<"templates", ".gitignore">>),
     gitattributes  |-> PathJoin(Dirname, <<"templates", ".gitattributes">>),
     eslintrc       |-> PathJoin(Dirname, <<"templates", ".eslintrc.yml">>),
     eslintrcIgnore |-> PathJoin(Dirname, <<"templates", ".eslintignore">>),
     prettierrc     |-> PathJoin(Dirname, <<"templates", ".prettierrc.yml">>),
     prettierIgnore |-> PathJoin(Dirname, <<"templates", ".prettierignore">>)]

\* lines 85-86 and 228: path.join(TEMPLATES_DIR, template)
templateDir(template) == <<"/pkg", "templates", template>>

\* What a path of the working directory is when init starts.  A symbolic
\* link is named with what it points at; "fifo" is a file that is neither
\* a regular file nor a directory (a FIFO, a socket, a device).  "dir" and
\* "emptyDir" are directories the process may both read and search; the
\* three other directories hold an entry and withhold a permission from the
\* process: "unreadableDir" may be searched but not read, "unsearchableDir"
\* may be read but not searched, "lockedDir" neither.
FileKinds == {"absent", "file", "emptyDir", "dir", "fifo",
              "unreadableDir", "unsearchableDir", "lockedDir",
              "symlink->file", "symlink->emptyDir", "symlink->dir",
              "symlink->fifo", "symlink->absent"}

SymlinkKinds == {"symlink->file", "symlink->emptyDir", "symlink->dir",
                 "symlink->fifo", "symlink->absent"}

\* the directories that hold an entry
FullDirKinds == {"dir", "unreadableDir", "unsearchableDir", "lockedDir"}

\* the directories whose entries the process may not list (no read
\* permission) and those whose entries it may not reach (no search
\* permission)
UnreadableKinds == {"unreadableDir", "lockedDir"}

UnsearchableKinds == {"unsearchableDir", "lockedDir"}

\* the file a path leads to once symbolic links are followed
Follow(k) ==
    CASE k = "symlink->file"     -> "file"
      [] k = "symlink->emptyDir" -> "emptyDir"
      [] k = "symlink->dir"      -> "dir"
      [] k = "symlink->fifo"     -> "fifo"
      [] k = "symlink->absent"   -> "absent"
      [] OTHER                   -> k

\* the entry of the working directory a path names
KindOf(d, p) ==
    LET rel == PathRelative(Cwd, p)
    IN  IF rel \in DOMAIN d THEN d[rel] ELSE "absent"

\* the process may search every directory of the working directory that
\* lies on the way to the path (the working directory itself it may)
Reachable(d, p) ==
    LET rel == PathRelative(Cwd, p)
    IN  \A i \in 1..(Len(rel) - 1) :
            LET dir == SubSeq(rel, 1, i)
            IN  dir \in DOMAIN d => Follow(d[dir]) \notin UnsearchableKinds

\* fs.pathExists: fs.access succeeds; access follows symbolic links, and
\* it fails (EACCES) below a directory the process may not search, as it
\* fails (ENOENT) for a path that is not there
pathExists(d, p) ==
    /\ Follow(KindOf(d, p)) # "absent"
    /\ Reachable(d, p)

\* fs.stat follows symbolic links: the Stats describe the target
stat(d, p) == [kind |-> Follow(KindOf(d, p))]

isFile(st) == st.kind = "file"

isSymbolicLink(st) == st.kind \in SymlinkKinds

\* fs.readdir rejects when the path does not lead to a directory (ENOTDIR,
\* ENOENT) and when it leads to one the process may not read (EACCES)
readdirRejects(d, p) ==
    Follow(KindOf(d, p)) \notin {"dir", "emptyDir", "unsearchableDir"}

\* fs.readdir of a directory (or of a link to one) the process may read:
\* its entry names
readdir(d, p) ==
    IF Follow(KindOf(d, p)) \in {"dir", "unsearchableDir"}
    THEN <<"entry">> ELSE <<>>

-----------------------------------------------------------------------------
(* Conflict Detector (lines 228-256)                                         *)

\* a candidate list that leaves the template's entries out
TemplateNamesNone(entries) ==
    <<>>

\* the names fs.readdir(templateDir) returns, pushed onto pathValues as
\* they are (lines 231-233)
TemplateNames(entries) ==
    [i \in 1..Len(entries) |-> <<entries[i]>>]

\* lines 230-233
BuildPaths ==
    /\ pc = "paths"
    /\ pathValues' = PathsValues \o
                     TemplateNames(templateEntries[cfg.template])
    /\ existingPaths' = <<>>
    /\ pi' = 1
    /\ pc' = "check"
    /\ UNCHANGED <<exitCode, pkgJson, written,
                   host, argv, initMode, templateEntries, fs, avail, qi,
                   answers, prompted, cfg, step, opi, ops, yamlData, error>>

\* an operation of the pipeline: a shell command or an fs-extra call
NoOp == [step |-> "", fn |-> "", cmd |-> "", from |-> <<>>, path |-> <<>>,
         ok |-> T]

NoError == [kind |-> "none", paths |-> <<>>, op |-> NoOp, hint |-> F]

\* lines 249-256
ConflictError(found) ==
    [kind |-> "conflict", paths |-> found, op |-> NoOp, hint |-> F]

\* the error a rejected fs-extra call of the conflict loop rejects init with
FsError(fn, filePath) ==
    [kind |-> "op", paths |-> <<>>,
     op |-> [NoOp EXCEPT !.fn = fn, !.path = filePath, !.ok = F],
     hint |-> F]

\* line 237: the next path is taken; an empty one is skipped, otherwise
\* fs.pathExists is awaited, and a path that is not there is skipped
PathExists ==
    /\ pc = "check"
    /\ pi <= Len(pathValues)
    /\ IF pathValues[pi] # <<>> /\ pathExists(fs, pathValues[pi])
       THEN pc' = "stat" /\ pi' = pi
       ELSE pc' = "check" /\ pi' = pi + 1
    /\ UNCHANGED <<exitCode, pkgJson, written,
                   host, argv, initMode, templateEntries, fs, avail, qi,
                   answers, prompted, cfg, pathValues, existingPaths, step,
                   opi, ops, yamlData, error>>

\* lines 238-241: fs.stat is awaited; a regular file (or a symbolic link,
\* which the Stats of fs.stat never are) is pushed, anything else goes on
\* to fs.readdir
Stat ==
    /\ pc = "stat"
    /\ LET st == stat(fs, pathValues[pi])
       IN  IF isFile(st) \/ isSymbolicLink(st)
           THEN /\ existingPaths' =
                      Append(existingPaths,
                             PathRelative(Cwd, pathValues[pi]))
                /\ pi' = pi + 1
                /\ pc' = "check"
           ELSE /\ pc' = "readdir"
                /\ UNCHANGED <<pi, existingPaths>>
    /\ UNCHANGED <<exitCode, pkgJson, written,
                   host, argv, initMode, templateEntries, fs, avail, qi,
                   answers, prompted, cfg, pathValues, step, opi, ops,
                   yamlData, error>>

\* lines 242-244: fs.readdir is awaited; when it rejects, init is rejected
\* with its error; a directory that holds an entry is pushed
Readdir ==
    /\ pc = "readdir"
    /\ IF readdirRejects(fs, pathValues[pi])
       THEN /\ pc' = "failed"
            /\ error' = FsError("readdir", pathValues[pi])
            /\ UNCHANGED <<pi, existingPaths>>
       ELSE /\ existingPaths' =
                  IF Len(readdir(fs, pathValues[pi])) > 0
                  THEN Append(existingPaths,
                              PathRelative(Cwd, pathValues[pi]))
                  ELSE existingPaths
            /\ pi' = pi + 1
            /\ pc' = "check"
            /\ error' = error
    /\ UNCHANGED <<exitCode, pkgJson, written,
                   host, argv, initMode, templateEntries, fs, avail, qi,
                   answers, prompted, cfg, pathValues, step, opi, ops,
                   yamlData>>

ThrowConflict ==
    /\ pc = "check"
    /\ pi > Len(pathValues)
    /\ Len(existingPaths) > 0
    /\ error' = ConflictError(existingPaths)
    /\ pc' = "failed"
    /\ UNCHANGED <<exitCode, pkgJson, written,
                   host, argv, initMode, templateEntries, fs, avail, qi,
                   answers, prompted, cfg, pathValues, pi, existingPaths,
                   step, opi, ops, yamlData>>

-----------------------------------------------------------------------------
(* Scaffold Pipeline (lines 258-430)                                         *)

Cmd(c)         == [NoOp EXCEPT !.fn = "cmd", !.cmd = c]
ReadJson(p)    == [NoOp EXCEPT !.fn = "readJson", !.path = p]
OutputFile(p)  == [NoOp EXCEPT !.fn = "outputFile", !.path = p]
Copy(src, dst) == [NoOp EXCEPT !.fn = "copy", !.from = src, !.path = dst]
Remove(p)      == [NoOp EXCEPT !.fn = "remove", !.path = p]
ReadFile(p)    == [NoOp EXCEPT !.fn = "readFile", !.path = p]
WriteFile(p)   == [NoOp EXCEPT !.fn = "writeFile", !.path = p]

RECURSIVE Join(_, _)
\* Array.prototype.join
Join(s, sep) ==
    IF s = <<>> THEN ""
    ELSE IF Len(s) = 1 THEN s[1]
    ELSE s[1] \o sep \o Join(Tail(s), sep)

\* line 83
COMPILER_VERSION == "2.1.0"

\* line 258
selectedPackageManager(c) == packageManagerCommands[c.packageManager]

\* lines 297-316
devDependencies(c) ==
    <<"@rbxts/types", "@rbxts/compiler-types@compiler-" \o COMPILER_VERSION,
      "typescript">>
    \o (IF Truthy(c.prettier) THEN <<"prettier">> ELSE <<>>)
    \o (IF Truthy(c.eslint)
        THEN <<"eslint", "@typescript-eslint/parser",
               "eslint-plugin-roblox-ts">>
             \o (IF Truthy(c.prettier) THEN <<"eslint-plugin-prettier">>
                 ELSE <<>>)
        ELSE <<>>)

\* the steps in the order init runs them
StepOrder == <<"manifest", "git", "deps", "yarn3", "eslint", "prettier",
               "vscode", "template", "build">>

\* the first argument of each benchmark() call
StepLabel(s) ==
    CASE s = "manifest" -> "Initializing package.json.."
      [] s = "git"      -> "Initializing Git.."
      [] s = "deps"     -> "Installing dependencies.."
      [] s = "yarn3"    -> "Setting up yarn v3.."
      [] s = "eslint"   -> "Configuring ESLint.."
      [] s = "prettier" -> "Configuring prettier.."
      [] s = "vscode"   -> "Configuring vscode.."
      [] s = "template" -> "Copying template files.."
      [] s = "build"    -> "Compiling.."

\* the editor step guarded by the linter toggle
StepEnabledEditorByLinter(s, c) ==
    CASE s = "git"      -> Truthy(c.git)
      [] s = "yarn3"    -> c.packageManager = PackageManager.Yarn3
      [] s = "eslint"   -> Truthy(c.eslint)
      [] s = "prettier" -> Truthy(c.prettier)
      [] s = "vscode"   -> Truthy(c.eslint)
      [] OTHER          -> TRUE

\* the `if` around each benchmark() call
StepEnabled(s, c) ==
    CASE s = "git"      -> Truthy(c.git)
      [] s = "yarn3"    -> c.packageManager = PackageManager.Yarn3
      [] s = "eslint"   -> Truthy(c.eslint)
      [] s = "prettier" -> Truthy(c.prettier)
      [] s = "vscode"   -> Truthy(c.vscode)
      [] OTHER          -> TRUE

\* `"nodeLinker" in yamlData` (line 333) throws a TypeError when yamlData
\* is not an object: YAML.parse gives null for an empty document
InThrows(yd) == yd = Null

\* lines 332-335, for a document that is an object: the linking mode is
\* absent or wrong
NeedsNodeLinker(yd) == yd = Undef \/ yd # "node-modules"

\* the command of the final step, line 430
BuildCommand(c) == "npm run build"

\* the awaited operations of each step's callback, in order
StepBody(s, c, yd) ==
    CASE s = "manifest" ->
           <<Cmd(selectedPackageManager(c).init),
             ReadJson(paths.packageJson),
             OutputFile(paths.packageJson)>>
      [] s = "git" ->
           <<Cmd("git init"),
             Copy(configTemplate.gitignore, paths.gitignore),
             Copy(configTemplate.gitattributes, paths.gitattributes)>>
      [] s = "deps" ->
           <<Cmd(selectedPackageManager(c).devInstall \o " "
                 \o Join(devDependencies(c), " "))>>
      [] s = "yarn3" ->
           <<Cmd("yarn set verion latest"),
             Remove(paths.yarnncOld),
             ReadFile(paths.yarnnc)>>
           \o (IF ~InThrows(yd) /\ NeedsNodeLinker(yd)
               THEN <<WriteFile(paths.yarnnc)>> ELSE <<>>)
      [] s = "eslint" ->
           <<Copy(configTemplate.eslintrc, paths.eslintrc),
             Copy(configTemplate.eslintrcIgnore, paths.eslintrcIgnore)>>
           \o (IF Truthy(c.prettier)
               THEN <<ReadFile(paths.eslintrc), WriteFile(paths.eslintrc)>>
               ELSE <<>>)
      [] s = "prettier" ->
           <<Copy(configTemplate.prettierrc, paths.prettierrc),
             Copy(configTemplate.prettierIgnore, paths.prettierIgnore)>>
      [] s = "vscode" ->
           (IF c.packageManager = PackageManager.Yarn3
            THEN <<Cmd("yarn dlx @yarnpkg/sdks vscode")>> ELSE <<>>)
           \o <<OutputFile(paths.extensions), OutputFile(paths.settings)>>
      [] s = "template" ->
           <<Copy(templateDir(c.template), Cwd)>>
      [] s = "build" ->
           <<Cmd(BuildCommand(c))>>

\* benchmark(name, callback) of ./util/benchmark: reports the step under its
\* name and awaits the callback
benchmark(name, body) ==
    [i \in 1..Len(body) |-> [body[i] EXCEPT !.step = name]]

StepOps(s, c, yd) == benchmark(StepLabel(s), StepBody(s, c, yd))

StepIndex(s) == CHOOSE i \in 1..Len(StepOrder) : StepOrder[i] = s

RECURSIVE NextStepFrom(_, _)
\* the first step at or after position i whose `if` lets it run
NextStepFrom(i, c) ==
    IF i > Len(StepOrder) THEN "end"
    ELSE IF StepEnabled(StepOrder[i], c) THEN StepOrder[i]
    ELSE NextStepFrom(i + 1, c)

\* lines 257-260: no conflict was found, the pipeline starts
StartPipeline ==
    /\ pc = "check"
    /\ pi > Len(pathValues)
    /\ Len(existingPaths) = 0
    /\ step' = NextStepFrom(1, cfg)
    /\ opi' = 1
    /\ pc' = "step"
    /\ UNCHANGED <<exitCode, pkgJson, written,
                   host, argv, initMode, templateEntries, fs, avail, qi,
                   answers, prompted, cfg, pathValues, pi, existingPaths,
                   ops, yamlData, error>>

\* a failed operation whose error never carries the Git hint
OpErrorNoHint(s, i, op) ==
    [kind  |-> "op", paths |-> <<>>, op |-> [op EXCEPT !.ok = F],
     hint  |-> F]

\* cmd() rejects with a new Error that carries the command (lines 76-80); a
\* failed fs-extra call rejects with its own error; the catch of lines
\* 285-290 adds the Git hint to a failed `git init`
OpError(s, i, op) ==
    [kind  |-> "op", paths |-> <<>>, op |-> [op EXCEPT !.ok = F],
     hint  |-> IF s = "git" /\ i = 1 THEN T ELSE F]

\* the TypeError the condition of line 333 throws inside the yarn v3 step
TypeError ==
    [kind |-> "TypeError", paths |-> <<>>, op |-> NoOp, hint |-> F]

\* the text the catch of lines 287-289 appends after a line break
GitHint == "Do you not have Git installed?"

\* the message of the error init rejects with, line by line: the message
\* cmd() builds from the command (lines 77-79), or the message of the
\* fs-extra call that failed, followed by the Git hint where the catch of
\* lines 285-290 added it
Message(e) ==
    <<IF e.kind = "TypeError"
      THEN "Cannot use 'in' operator to search for 'nodeLinker' in null"
      ELSE IF e.op.fn = "cmd"
      THEN "Command \"" \o e.op.cmd \o "\" exited with code"
      ELSE e.op.fn>>
    \o (IF e.hint = T THEN <<GitHint>> ELSE <<>>)

\* a failed operation that is caught and ignored: the step goes on
AfterFailureSwallowed(s, i, c, yd) ==
    IF i < Len(StepBody(s, c, yd))
    THEN [pc |-> "step", step |-> s, opi |-> i + 1]
    ELSE IF NextStepFrom(StepIndex(s) + 1, c) = "end"
         THEN [pc |-> "done", step |-> s, opi |-> i]
         ELSE [pc |-> "step", step |-> NextStepFrom(StepIndex(s) + 1, c),
               opi |-> 1]

\* where init stands after operation i of step s failed: every await
\* rethrows, init is rejected
AfterFailure(s, i, c, yd) == [pc |-> "failed", step |-> s, opi |-> i]

\* the code that follows operation i of step s throws before the next
\* await: the condition of line 333, evaluated once .yarnrc.yml is read and
\* parsed
Throws(s, i, c, yd) ==
    /\ s = "yarn3"
    /\ StepBody(s, c, yd)[i] = ReadFile(paths.yarnnc)
    /\ InThrows(yd)

\* where init stands after operation i of step s succeeded
AfterSuccess(s, i, c, yd) ==
    IF Throws(s, i, c, yd)
    THEN [pc |-> "failed", step |-> s, opi |-> i]
    ELSE IF i < Len(StepOps(s, c, yd))
    THEN [pc |-> "step", step |-> s, opi |-> i + 1]
    ELSE IF NextStepFrom(StepIndex(s) + 1, c) = "end"
         THEN [pc |-> "done", step |-> s, opi |-> i]
         ELSE [pc |-> "step", step |-> NextStepFrom(StepIndex(s) + 1, c),
               opi |-> 1]

\* init.ts:84
RBXTS_SCOPE == "@rbxts"

\* a package.json document: an absent key is Undef (files: the empty list;
\* publishConfig is named by its access key)
NoScripts ==
    [build |-> Undef, watch |-> Undef, prepublishOnly |-> Undef,
     test |-> Undef]

NoManifest ==
    [name |-> Undef, main |-> Undef, types |-> Undef, files |-> <<>>,
     publishConfig |-> Undef, scripts |-> NoScripts]

\* what the manifest-init command of line 261 can leave in package.json
\* for fs.readJson to return: a main and a test script (npm, pnpm), a main
\* and no scripts (yarn 1), or neither
InitManifests ==
    {[NoManifest EXCEPT !.name = "my-project", !.main = "index.js",
                        !.scripts = [NoScripts EXCEPT !.test = "exit 1"]],
     [NoManifest EXCEPT !.name = "my-project", !.main = "index.js"],
     [NoManifest EXCEPT !.name = "my-project"]}

\* a manifest rewrite that injects the package fields whatever the template
ManifestAlwaysPackage(m, c) ==
    [m EXCEPT !.scripts = [NoScripts EXCEPT
                             !.build = "rbxtsc", !.watch = "rbxtsc -w",
                             !.prepublishOnly =
                                 selectedPackageManager(c).build],
              !.name = RBXTS_SCOPE \o "/" \o m.name,
              !.main = "out/init.lua",
              !.types = "out/index.d.ts",
              !.files = <<"out", "!**/*.tsbuildinfo">>,
              !.publishConfig = "public"]

\* pkgJson after lines 263-274, the document line 277 serialises
Manifest(m, c) ==
    LET scripts == [NoScripts EXCEPT
                      !.build = "rbxtsc", !.watch = "rbxtsc -w"]
        m1 == [m EXCEPT !.scripts = scripts]
    IN  IF c.template = InitMode.Package
        THEN [m1 EXCEPT !.name = RBXTS_SCOPE \o "/" \o m.name,
                        !.main = "out/init.lua",
                        !.types = "out/index.d.ts",
                        !.files = <<"out", "!**/*.tsbuildinfo">>,
                        !.publishConfig = "public",
                        !.scripts = [scripts EXCEPT !.prepublishOnly =
                                        selectedPackageManager(c).build]]
        ELSE m1

\* extensions.recommendations when line 415 serialises it
Extensions(c) ==
    <<"roblox-ts.vscode-roblox-ts">>
    \o (IF Truthy(c.eslint) THEN <<"dbaeumer.vscode-eslint">> ELSE <<>>)
    \o (IF Truthy(c.prettier) THEN <<"esbenp.prettier-vscode">> ELSE <<>>)
    \o (IF c.packageManager = PackageManager.Yarn3
        THEN <<"arcanis.vscode-zipfs">> ELSE <<>>)

\* a "[typescript]" or "[typescriptreact]" block of settings.json
NoBlock == [defaultFormatter |-> Undef, formatOnSave |-> Undef]

Block(formatter) == [defaultFormatter |-> formatter, formatOnSave |-> T]

\* settings.json: an absent key is Undef, an absent block is NoBlock
NoSettings ==
    [enablePromptUseWorkspaceTsdk |-> Undef, typescript |-> NoBlock,
     typescriptreact |-> NoBlock, eslintRun |-> Undef,
     eslintFormatEnable |-> Undef]

\* settings whose prettier blocks are assigned whether or not eslint is on
SettingsPrettierLast(c) ==
    LET s0 == [NoSettings EXCEPT !.enablePromptUseWorkspaceTsdk = T]
        s1 == IF Truthy(c.eslint)
              THEN [s0 EXCEPT
                      !.typescript = Block("dbaeumer.vscode-eslint"),
                      !.typescriptreact = Block("dbaeumer.vscode-eslint"),
                      !.eslintRun = "onType",
                      !.eslintFormatEnable = T]
              ELSE s0
    IN  IF Truthy(c.prettier)
        THEN [s1 EXCEPT
                !.typescript = Block("esbenp.prettier-vscode"),
                !.typescriptreact = Block("esbenp.prettier-vscode")]
        ELSE s1

\* settings when line 419 serialises it: the Object.assign calls of lines
\* 380-392 and 398-407 in order
Settings(c) ==
    LET s0 == [NoSettings EXCEPT !.enablePromptUseWorkspaceTsdk = T]
        s1 == IF Truthy(c.eslint)
              THEN [s0 EXCEPT
                      !.typescript = Block("dbaeumer.vscode-eslint"),
                      !.typescriptreact = Block("dbaeumer.vscode-eslint"),
                      !.eslintRun = "onType",
                      !.eslintFormatEnable = T]
              ELSE s0
    IN  IF Truthy(c.prettier) /\ ~Truthy(c.eslint)
        THEN [s1 EXCEPT
                !.typescript = Block("esbenp.prettier-vscode"),
                !.typescriptreact = Block("esbenp.prettier-vscode")]
        ELSE s1

\* nothing written yet
NoWritten ==
    [packageJson |-> NoManifest, extensions |-> <<>>,
     settings |-> NoSettings]

\* the documents written once outputFile call op has succeeded; each JSON
\* text is named by the document JSON.stringify was handed
Written(w, op, m, c) ==
    CASE op.fn = "outputFile" /\ op.path = paths.packageJson ->
           [w EXCEPT !.packageJson = Manifest(m, c)]
      [] op.fn = "outputFile" /\ op.path = paths.extensions ->
           [w EXCEPT !.extensions = Extensions(c)]
      [] op.fn = "outputFile" /\ op.path = paths.settings ->
           [w EXCEPT !.settings = Settings(c)]
      [] OTHER -> w

\* where fs.copy(templateDir, cwd) writes: below cwd, one destination per
\* top-level entry of the template directory (lines 426-428)
CopyDestinations(entries) ==
    {PathJoin(Cwd, <<entries[i]>>) : i \in 1..Len(entries)}

\* what YAML.parse of .yarnrc.yml can give: null for an empty document, or
\* a mapping, told apart by its nodeLinker (Undef: no such key)
NodeLinkerValues == {Null, Undef, "node-modules", "pnp"}

\* the next operation of step s is invoked and succeeds
OpSucceeds(s) ==
    /\ pc = "step"
    /\ step = s
    /\ LET op == StepOps(s, cfg, yamlData)[opi]
       IN  /\ ops' = Append(ops, op)
           /\ \E yd \in NodeLinkerValues :
                /\ (op.fn = "readFile" /\ op.path = paths.yarnnc)
                      \/ yd = yamlData
                /\ yamlData' = yd
                /\ LET to == AfterSuccess(s, opi, cfg, yd)
                   IN  /\ pc' = to.pc /\ step' = to.step /\ opi' = to.opi
                       /\ error' = IF to.pc = "failed" THEN TypeError
                                                       ELSE error
           /\ \E m \in InitManifests \cup {pkgJson} :
                /\ IF op.fn = "readJson" THEN m \in InitManifests
                                          ELSE m = pkgJson
                /\ pkgJson' = m
           /\ written' = Written(written, op, pkgJson, cfg)
    /\ UNCHANGED <<exitCode, host, argv, initMode, templateEntries, fs, avail,
                   qi, answers, prompted, cfg, pathValues, pi, existingPaths>>

\* the next operation of step s is invoked and fails
OpFails(s) ==
    /\ pc = "step"
    /\ step = s
    /\ LET op == StepOps(s, cfg, yamlData)[opi]
           to == AfterFailure(s, opi, cfg, yamlData)
       IN  /\ ops' = Append(ops, [op EXCEPT !.ok = F])
           /\ error' = IF to.pc = "failed" THEN OpError(s, opi, op) ELSE error
           /\ pc' = to.pc /\ step' = to.step /\ opi' = to.opi
    /\ UNCHANGED <<exitCode, pkgJson, written,
                   host, argv, initMode, templateEntries, fs, avail, qi,
                   answers, prompted, cfg, pathValues, pi, existingPaths,
                   yamlData>>

RunStep(s) == OpSucceeds(s) \/ OpFails(s)

ManifestStep == RunStep("manifest")   \* lines 260-279
GitStep      == RunStep("git")        \* lines 281-294
DepsStep     == RunStep("deps")       \* lines 296-321
Yarn3Step    == RunStep("yarn3")      \* lines 324-340
EslintStep   == RunStep("eslint")     \* lines 342-359
PrettierStep == RunStep("prettier")   \* lines 361-366
VscodeStep   == RunStep("vscode")     \* lines 368-424
TemplateStep == RunStep("template")   \* lines 426-428
BuildStep    == RunStep("build")      \* line 430

-----------------------------------------------------------------------------
(* The inputs of a run: the host, the flags, the templates and the working   *)
(* directory                                                                 *)

\* the most entries the working directory holds when init starts
MaxOccupied == 2

ToolSet == Range(Tools)

AllPresent == [t \in ToolSet |-> Found]

\* every host on which each tool is found or not found, and the hosts on
\* which one probe, or every probe, is rejected
Hosts ==
    [ToolSet -> {Found, NotFound}]
    \cup {[t \in ToolSet |-> Rejected]}
    \cup {[t \in ToolSet |-> IF t = r THEN Rejected ELSE NotFound] :
             r \in ToolSet}

Flag == {Undef, T, F}

AllArgv == [yes : Flag, git : Flag, eslint : Flag, prettier : Flag,
            vscode : Flag, packageManager : {Undef} \cup PackageManagers]

NoFlags == [yes |-> Undef, git |-> Undef, eslint |-> Undef,
            prettier |-> Undef, vscode |-> Undef, packageManager |-> Undef]

\* every toggle and the package manager given as flags
ExplicitArgv == [yes : {Undef}, git : JSBool, eslint : JSBool,
                 prettier : JSBool, vscode : JSBool,
                 packageManager : PackageManagers]

\* no flag but, possibly, --yes or --no-yes
BareArgv == {[NoFlags EXCEPT !.yes = y] : y \in Flag}

Templates == Range(TemplateChoices)

\* the top-level entries a template directory can hold, as readdir lists them
TemplateListings == {<<"default.project.json", "src">>,
                     <<".vscode", "src">>}

PlainTemplates == [t \in Templates |-> <<"default.project.json", "src">>]

\* the game template with each listing, beside a package template that
\* holds a tsconfig.json
TemplateTrees ==
    {[t \in Templates |-> IF t = InitMode.Package
                          THEN <<"src", "tsconfig.json">> ELSE b] :
        b \in TemplateListings}

\* the paths of the working directory the model tells apart
FsPaths ==
    {PathRelative(Cwd, paths[k]) : k \in DOMAIN paths}
    \cup {<<".vscode">>}
    \cup {<<l[i]>> : i \in 1..2, l \in TemplateListings}

\* the paths that may be there when init starts
Occupiable == {<<".yarnrc.yml">>, <<".vscode">>,
               <<".vscode", "settings.json">>,
               <<".vscode", "extensions.json">>, <<"src">>}

\* an entry below a directory is there only if the directory is, and then
\* the directory is not empty
WellFormed(d) ==
    \A p \in DOMAIN d :
        (Len(p) > 1 /\ d[p] # "absent")
            => Follow(d[SubSeq(p, 1, Len(p) - 1)]) \in FullDirKinds

\* what may be at a path when init starts.  Whether a directory may be
\* searched shows only at the paths below it, so the directories that may
\* not be searched are told apart from "dir" and "unreadableDir" at the
\* paths that have a candidate below them.
KindsAt(p) ==
    IF \E q \in Occupiable : Len(q) > Len(p) /\ SubSeq(q, 1, Len(p)) = p
    THEN FileKinds \ {"absent"}
    ELSE FileKinds \ ({"absent"} \cup UnsearchableKinds)

EmptyFs == [p \in FsPaths |-> "absent"]

FsStates ==
    {d \in UNION {{[p \in FsPaths |-> IF p \in S THEN k[p] ELSE "absent"] :
                      k \in {f \in [S -> FileKinds \ {"absent"}] :
                                \A p \in S : f[p] \in KindsAt(p)}} :
                  S \in {S \in SUBSET Occupiable :
                            Cardinality(S) <= MaxOccupied}} :
        WellFormed(d)}

Scenario(h, a, m, t, d) ==
    [host |-> h, argv |-> a, initMode |-> m, templateEntries |-> t, fs |-> d]

\* runs told apart by their flags, in an empty directory
FlagScenarios ==
    {Scenario(AllPresent, a, m, PlainTemplates, EmptyFs) :
        a \in ExplicitArgv, m \in HandlerModes}

\* runs told apart by the host and the prompt answers, in an empty directory
PromptScenarios ==
    {Scenario(h, a, m, PlainTemplates, EmptyFs) :
        h \in Hosts, a \in BareArgv, m \in HandlerModes}

\* runs told apart by the working directory and the templates
\* (with --yes every toggle is on and the package manager is npm)
FsScenarios ==
    {Scenario(AllPresent, [NoFlags EXCEPT !.yes = T], InitMode.Game, t, d) :
        t \in TemplateTrees, d \in FsStates}

\* runs told apart by the working directory, with every toggle off
FsOffScenarios ==
    {Scenario(AllPresent, [NoFlags EXCEPT !.yes = F], InitMode.Game,
              PlainTemplates, d) :
        d \in FsStates}

\* runs on a host without git, told apart by --yes and --git
GitScenarios ==
    {Scenario([AllPresent EXCEPT !["git"] = NotFound],
              [NoFlags EXCEPT !.yes = y, !.git = g], InitMode.Game,
              PlainTemplates, EmptyFs) :
        y \in Flag, g \in Flag}

\* every combination of flags, mode and host, in an empty directory
ResolverScenarios ==
    {Scenario(h, a, m, PlainTemplates, EmptyFs) :
        h \in Hosts, a \in AllArgv, m \in HandlerModes}

Start(scenarios) ==
    /\ \E sc \in scenarios :
          /\ host = sc.host
          /\ argv = sc.argv
          /\ initMode = sc.initMode
          /\ templateEntries = sc.templateEntries
          /\ fs = sc.fs
    /\ pc = "probe"
    /\ avail = NoAvail
    /\ qi = 1
    /\ answers = NoAnswers
    /\ prompted = {}
    /\ cfg = NoCfg
    /\ pathValues = <<>>
    /\ pi = 1
    /\ existingPaths = <<>>
    /\ step = ""
    /\ opi = 1
    /\ ops = <<>>
    /\ yamlData = Undef
    /\ error = NoError
    /\ exitCode = {}
    /\ pkgJson = NoManifest
    /\ written = NoWritten

Init ==
    Start(FlagScenarios \cup PromptScenarios \cup FsScenarios
          \cup FsOffScenarios \cup GitScenarios)

Next ==
    \/ Probe
    \/ PromptSkip
    \/ PromptAnswer
    \/ PromptCancel
    \/ Resolve
    \/ BuildPaths
    \/ PathExists
    \/ Stat
    \/ Readdir
    \/ ThrowConflict
    \/ StartPipeline
    \/ ManifestStep
    \/ GitStep
    \/ DepsStep
    \/ Yarn3Step
    \/ EslintStep
    \/ PrettierStep
    \/ VscodeStep
    \/ TemplateStep
    \/ BuildStep

Spec == Init /\ [][Next]_vars

\* the tool prober and the option resolver alone, over every input
InitResolver == Start(ResolverScenarios)

NextResolver ==
    \/ Probe
    \/ PromptSkip
    \/ PromptAnswer
    \/ PromptCancel
    \/ Resolve

SpecResolver == InitResolver /\ [][NextResolver]_vars

-----------------------------------------------------------------------------
(* Vocabulary of the properties                                              *)

Resolved == cfg # NoCfg

\* the conflict loop has looked at every entry of pathValues
CheckComplete == pc \in {"check", "step", "done", "failed"}
                 /\ pathValues # <<>> /\ pi > Len(pathValues)

\* the thirteen fixed config-file paths, relative to the working directory
FixedCandidates ==
    {<<"package.json">>, <<"package-lock.json">>, <<".yarnrc">>,
     <<".yarnrc.yml">>, <<"tsconfig.json">>, <<".gitignore">>,
     <<".gitattributes">>, <<".eslintrc.yml">>, <<".eslintignore">>,
     <<".prettierrc.yml">>, <<".prettierignore">>,
     <<".vscode", "settings.json">>, <<".vscode", "extensions.json">>}

\* the candidate paths: the fixed ones and every top-level entry of the
\* chosen template directory
Candidates ==
    FixedCandidates \cup {<<n>> : n \in Range(templateEntries[cfg.template])}

\* a path that is there as a regular file, a symbolic link or a non-empty
\* directory
IsExistingContent(k) == k \in {"file"} \cup FullDirKinds \cup SymlinkKinds

ConflictingCandidates == {p \in Candidates : IsExistingContent(fs[p])}

Labels == [i \in 1..Len(ops) |-> ops[i].step]

RECURSIVE Collapse(_)
\* a sequence without its consecutive repetitions
Collapse(s) ==
    IF Len(s) <= 1 THEN s
    ELSE IF s[1] = s[2] THEN Collapse(Tail(s))
    ELSE <<s[1]>> \o Collapse(Tail(s))

IsPrefix(s, t) == Len(s) <= Len(t) /\ s = SubSeq(t, 1, Len(s))

Count(label) == Cardinality({i \in 1..Len(ops) : ops[i].step = label})

\* the fixed list of steps, by the name each reports
FixedSteps == <<"Initializing package.json..", "Initializing Git..",
                "Installing dependencies..", "Setting up yarn v3..",
                "Configuring ESLint..", "Configuring prettier..",
                "Configuring vscode..", "Copying template files..",
                "Compiling..">>

RunsFor(label, c) ==
    CASE label = "Initializing Git.."     -> c.git = T
      [] label = "Setting up yarn v3.."   -> c.packageManager = "yarn3"
      [] label = "Configuring ESLint.."   -> c.eslint = T
      [] label = "Configuring prettier.." -> c.prettier = T
      [] label = "Configuring vscode.."   -> c.vscode = T
      [] OTHER                            -> TRUE

RECURSIVE FilterSteps(_, _)
FilterSteps(s, c) ==
    IF s = <<>> THEN <<>>
    ELSE IF RunsFor(Head(s), c) THEN <<Head(s)>> \o FilterSteps(Tail(s), c)
    ELSE FilterSteps(Tail(s), c)

Toggles == {"git", "eslint", "prettier", "vscode"}

ManagerAvailable(pm) == packageManagerExistance(avail)[pm] = T

-----------------------------------------------------------------------------
(* The properties                                                            *)

\* C1: the conflict check has examined every candidate path before any
\* pipeline operation is invoked, and when a candidate path is a conflict (it
\* exists as a regular file, a symbolic link or a non-empty directory) init
\* fails with the conflict error and no command or file operation is invoked.
C1_PreflightGate ==
    /\ ops # <<>> =>
          /\ CheckComplete
          /\ Candidates \subseteq
                {PathRelative(Cwd, pathValues[i]) : i \in 1..Len(pathValues)}
    /\ (Resolved /\ ConflictingCandidates # {}) =>
          /\ ops = <<>>
          /\ pc # "done"
          /\ pc = "failed" => error.kind = "conflict"

\* C2: the paths the conflict check reports are exactly the candidate paths
\* that exist as a regular file, a symbolic link or a non-empty directory.
C2_ReportedExactly ==
    CheckComplete => Range(existingPaths) = ConflictingCandidates

\* C3: the resolved package manager is one the tool probe reported as
\* available.
C3_ManagerAvailable ==
    Resolved => ManagerAvailable(cfg.packageManager)

OnlyManager(m) ==
    /\ avail # NoAvail
    /\ \A t \in {"npm", "pnpm", "yarn"} : (avail[t] = T) <=> (t = m)

\* C4: when only npm, only pnpm or only yarn is available, no package-manager
\* prompt is shown and the package manager resolves to the available one.
C4_SingleManager ==
    \A m \in {"npm", "pnpm", "yarn"} :
        OnlyManager(m) =>
            /\ "packageManager" \notin prompted
            /\ Resolved =>
                  /\ ManagerAvailable(cfg.packageManager)
                  /\ m = "npm" => cfg.packageManager = PackageManager.NPM
                  /\ m = "pnpm" => cfg.packageManager = PackageManager.PNPM

\* C5: for each option a given flag (for the template, an explicit
\* sub-command mode) suppresses that option's prompt and is the resolved
\* value, and an answered prompt is the resolved value.
C5_Precedence ==
    /\ \A o \in Toggles \cup {"packageManager"} :
          /\ argv[o] # Undef =>
                /\ o \notin prompted
                /\ Resolved => cfg[o] = argv[o]
          /\ (Resolved /\ answers[o] # Undef) => cfg[o] = answers[o]
    /\ initMode # InitMode.None =>
          /\ "template" \notin prompted
          /\ Resolved => cfg.template = initMode
    /\ (Resolved /\ answers.template # Undef) => cfg.template = answers.template

C5_Witness ==
    /\ Resolved
    /\ argv.git = F /\ cfg.git = F
    /\ argv.packageManager = PackageManager.PNPM
    /\ cfg.packageManager = PackageManager.PNPM
    /\ answers.eslint = F /\ cfg.eslint = F
    /\ answers.vscode = T /\ cfg.vscode = T
    /\ answers.template = InitMode.Plugin /\ cfg.template = InitMode.Plugin

\* C6 as stated: with --yes no toggle is prompted and every toggle resolves
\* to on, version control to off when git is not available.
C6_AllTogglesOn ==
    argv.yes = T =>
        /\ prompted \cap Toggles = {}
        /\ Resolved =>
              /\ cfg.eslint = T /\ cfg.prettier = T /\ cfg.vscode = T
              /\ cfg.git = (IF avail.git = T THEN T ELSE F)

\* C6, amended: with --yes no toggle is prompted, every toggle whose own flag
\* is not given resolves to on (version control: to off when git is not
\* available), and a toggle whose flag is given resolves to that flag.
C6_UnflaggedTogglesOn ==
    argv.yes = T =>
        /\ prompted \cap Toggles = {}
        /\ Resolved =>
              /\ \A o \in {"eslint", "prettier", "vscode"} :
                    cfg[o] = (IF argv[o] = Undef THEN T ELSE argv[o])
              /\ cfg.git = (IF argv.git # Undef THEN argv.git
                            ELSE IF avail.git = T THEN T ELSE F)

C6_Witness ==
    /\ Resolved /\ argv.yes = T
    /\ argv.git = Undef /\ avail.git = F /\ cfg.git = F
    /\ argv.eslint = Undef /\ cfg.eslint = T
    /\ argv.prettier = F /\ cfg.prettier = F

\* C7: while no operation has failed, the steps that have run are the fixed
\* list filtered by enablement, in order and each once; a step that is over
\* has invoked all of its operations before the next one began; at the end
\* of the run the whole filtered list has run.
C7_StepSequence ==
    (pc \in {"step", "done"} /\ error.kind = "none") =>
        /\ IsPrefix(Collapse(Labels), FilterSteps(FixedSteps, cfg))
        /\ pc = "done" => Collapse(Labels) = FilterSteps(FixedSteps, cfg)
        /\ \A s \in Range(StepOrder) :
              (Count(StepLabel(s)) > 0 /\ (pc = "done" \/ step # s)) =>
                  Count(StepLabel(s)) = Len(StepOps(s, cfg, yamlData))

C7_Witness ==
    /\ pc = "done"
    /\ cfg.git = T /\ cfg.eslint = F /\ cfg.prettier = T /\ cfg.vscode = F
    /\ cfg.packageManager = PackageManager.Yarn3
    /\ Collapse(Labels) =
          <<"Initializing package.json..", "Initializing Git..",
            "Installing dependencies..", "Setting up yarn v3..",
            "Configuring prettier..", "Copying template files..",
            "Compiling..">>

\* C8: an operation that fails is the last operation init invokes, init is
\* rejected with the error of that operation, and the operations invoked
\* before it all succeeded and stay as they are.
C8_FailureAborts ==
    \A i \in 1..Len(ops) :
        ops[i].ok = F =>
            /\ i = Len(ops)
            /\ pc = "failed"
            /\ error.kind = "op"
            /\ error.op = ops[i]

C8_Witness ==
    /\ pc = "failed"
    /\ error.kind = "op"
    /\ error.op.step = "Configuring ESLint.."
    /\ Count("Initializing package.json..") = 3
    /\ Count("Initializing Git..") = 3
    /\ Count("Installing dependencies..") = 1
    /\ Count("Copying template files..") = 0

\* C9: the command of the final build step is the build command of the
\* chosen package manager in the registry.
C9_BuildCommand ==
    \A i \in 1..Len(ops) :
        ops[i].step = "Compiling.." =>
            ops[i].cmd = packageManagerCommands[cfg.packageManager].build

\* C10 as stated: with a non-empty .vscode directory in the working
\* directory the manifest-init command is never invoked, and init fails with
\* a conflict error that lists .vscode.
C10_VscodeDirectory ==
    fs[<<".vscode">>] = "dir" =>
        /\ ops = <<>>
        /\ pc # "done"
        /\ pc = "failed" =>
              error.kind = "conflict" /\ <<".vscode">> \in Range(error.paths)

VscodeFiles == {<<".vscode", "settings.json">>,
                <<".vscode", "extensions.json">>}

\* the conflict loop was cut short: an fs call of the loop rejected, and
\* init was rejected with its error
CheckRejected ==
    /\ pc = "failed"
    /\ error.kind = "op" /\ error.op.fn = "readdir"
    /\ ops = <<>>

\* C10, amended: when .vscode holds settings.json or extensions.json as a
\* regular file or as a non-empty directory the process may read, and the
\* process may search .vscode, the manifest-init command is never invoked
\* and init does not complete; once the conflict loop has run, init fails
\* with a conflict error that lists that path, or, when a readdir call of
\* the loop rejected (on a candidate that is no directory, or on a directory
\* the process may not read), with the error of that call.  A conflict
\* error lists .vscode itself only when .vscode is a top-level entry of the
\* chosen template directory.
C10_VscodeFiles ==
    /\ \A p \in VscodeFiles :
          (fs[p] \in {"file", "dir"} /\ Reachable(fs, PathJoin(Cwd, p))) =>
              /\ ops = <<>>
              /\ pc # "done"
              /\ pc = "failed" =>
                    \/ error.kind = "conflict" /\ p \in Range(error.paths)
                    \/ /\ CheckRejected
                       /\ readdirRejects(fs, error.op.path)
    /\ (pc = "failed" /\ error.kind = "conflict"
        /\ <<".vscode">> \in Range(error.paths)) =>
          ".vscode" \in Range(templateEntries[cfg.template])

C10_Witness ==
    /\ pc = "failed"
    /\ fs[<<".vscode">>] = "dir"
    /\ fs[<<".vscode", "settings.json">>] = "file"
    /\ error.kind = "conflict"
    /\ error.paths = <<<<".vscode", "settings.json">>>>

\* the readdir case of C10_VscodeFiles: settings.json is a regular file,
\* .vscode is a template entry the process may search but not read, and
\* init is rejected with the error of the readdir call on .vscode
C10_ReaddirRejected ==
    /\ CheckRejected
    /\ fs[<<".vscode">>] = "unreadableDir"
    /\ fs[<<".vscode", "settings.json">>] = "file"
    /\ existingPaths = <<<<".vscode", "settings.json">>>>
    /\ error.op.path = <<".vscode">>

\* the conflict error of C10_VscodeFiles that lists .vscode itself
C10_DirectoryListed ==
    /\ pc = "failed"
    /\ error.kind = "conflict"
    /\ error.paths = <<<<".vscode", "settings.json">>, <<".vscode">>>>

\* C11: on a host where the probe did not find git, the git question is
\* never shown; unless --git was passed as true the git toggle resolves to
\* off and no operation of the git step is ever invoked, whatever --yes is
\* and whatever the prompts are answered; with --git passed as true the
\* toggle resolves to on, the git step has run in full before the
\* dependencies are installed, and a failure of `git init` is the error of
\* that step.
C11_GitUnavailable ==
    (pc # "probe" /\ avail.git = F) =>
        /\ "git" \notin prompted
        /\ (Resolved /\ argv.git # T) =>
              /\ cfg.git = F
              /\ Count("Initializing Git..") = 0
        /\ (Resolved /\ argv.git = T) =>
              /\ cfg.git = T
              /\ Count("Installing dependencies..") > 0 =>
                    Count("Initializing Git..") = 3
              /\ (Count("Initializing Git..") > 0 /\ pc = "failed"
                  /\ Count("Installing dependencies..") = 0) =>
                    error.op.step = "Initializing Git.."

C11_Witness ==
    /\ pc = "done"
    /\ avail.git = F
    /\ argv.yes = T /\ argv.git = Undef
    /\ cfg.git = F /\ cfg.eslint = T
    /\ Count("Initializing Git..") = 0
    /\ Count("Installing dependencies..") > 0

\* a question was shown and the user aborted it
Cancelled == \E q \in prompted : answers[q] = Undef

\* C12: once the user has cancelled a prompt, whichever it is, the process
\* has exited with a non-zero status and stays there: the configuration is
\* never resolved, no candidate path is ever checked, no pipeline step
\* starts, no command is invoked and no file is written.
C12_CancelExits ==
    Cancelled =>
        /\ pc = "exit1"
        /\ exitCode # {} /\ 0 \notin exitCode
        /\ ~Resolved
        /\ pathValues = <<>> /\ pi = 1 /\ existingPaths = <<>>
        /\ step = "" /\ ops = <<>>
        /\ written = NoWritten

C12_Witness ==
    /\ pc = "exit1"
    /\ exitCode = {1}
    /\ prompted = {"git", "eslint", "prettier", "vscode"}
    /\ answers.git = T /\ answers.eslint = F /\ answers.prettier = T
    /\ answers.vscode = Undef

\* C13 as stated: with --yes no question of any kind is shown, the template
\* question of the bare command included.
C13_NoPromptWithYes ==
    argv.yes = T => prompted = {}

\* C13, amended: with --yes present, as true or as false, no toggle question
\* and no package manager question is shown, for every sub-command and the
\* bare command; the template question is shown with the bare command, and
\* only with it, whether --yes is present or not.
C13_NoTogglePromptWithYes ==
    /\ argv.yes # Undef => prompted \subseteq {"template"}
    /\ "template" \in prompted => initMode = InitMode.None
    /\ (initMode = InitMode.None /\ qi > 1) => "template" \in prompted

C13_Witness ==
    /\ Resolved
    /\ argv.yes = T /\ argv.packageManager = Undef
    /\ initMode = InitMode.None
    /\ packageManagerCount(avail) > 1
    /\ prompted = {"template"}
    /\ cfg.template = InitMode.Plugin

\* the recursive copy of the chosen template has been invoked
TemplateCopyInvoked ==
    \E i \in 1..Len(ops) :
        ops[i].fn = "copy" /\ ops[i].from = templateDir(cfg.template)

\* C14: in every run that reaches the template copy, each destination of
\* the copy is a top-level entry the conflict check examined and did not
\* report, found absent or an empty directory, and no file that was in the
\* working directory when init started is at or below a destination.
C14_CopyOverwritesNothing ==
    TemplateCopyInvoked =>
        \A d \in CopyDestinations(templateEntries[cfg.template]) :
            /\ CheckComplete
            /\ PathRelative(Cwd, d) \in
                  {PathRelative(Cwd, pathValues[j]) :
                      j \in 1..Len(pathValues)}
            /\ PathRelative(Cwd, d) \notin Range(existingPaths)
            /\ Follow(KindOf(fs, d)) \in {"absent", "emptyDir"}
            /\ \A p \in DOMAIN fs :
                  IsPrefix(PathRelative(Cwd, d), p) =>
                      Follow(fs[p]) # "file"

C14_Witness ==
    /\ pc = "done"
    /\ cfg.template = InitMode.Game
    /\ templateEntries[cfg.template] = <<".vscode", "src">>
    /\ fs[<<"src">>] = "emptyDir"
    /\ fs[<<".yarnrc.yml">>] = "symlink->absent"
    /\ ops[Len(ops) - 1].fn = "copy" /\ ops[Len(ops) - 1].ok = T
    /\ ops[Len(ops) - 1].path = Cwd

\* C15: the manifest the manifest step writes has the scripts build and
\* watch in every mode.  In package mode its name is "@rbxts/" followed by
\* the name the manifest-init command produced, its main is out/init.lua and
\* its prepublishOnly script is the build command of the chosen package
\* manager.  In every other mode its name, main, types, files and
\* publishConfig are those the manifest-init command produced, and it has no
\* prepublishOnly script.
C15_ManifestFields ==
    written.packageJson # NoManifest =>
        LET w == written.packageJson
        IN  /\ w.scripts.build # Undef
            /\ w.scripts.watch # Undef
            /\ cfg.template = InitMode.Package =>
                  /\ w.name = "@rbxts/" \o pkgJson.name
                  /\ w.main = "out/init.lua"
                  /\ w.scripts.prepublishOnly =
                        packageManagerCommands[cfg.packageManager].build
            /\ cfg.template # InitMode.Package =>
                  /\ w.name = pkgJson.name
                  /\ w.main = pkgJson.main
                  /\ w.types = pkgJson.types
                  /\ w.files = pkgJson.files
                  /\ w.publishConfig = pkgJson.publishConfig
                  /\ w.scripts.prepublishOnly = Undef

C15_Witness ==
    /\ pc = "done"
    /\ cfg.template = InitMode.Package
    /\ cfg.packageManager = PackageManager.PNPM
    /\ pkgJson.name = "my-project" /\ pkgJson.main = "index.js"
    /\ written.packageJson.name = "@rbxts/my-project"
    /\ written.packageJson.main = "out/init.lua"
    /\ written.packageJson.scripts.prepublishOnly = "pnpm run build"

\* the default formatter settings.json names for a language
DefaultFormatter(lang) == written.settings[lang].defaultFormatter

\* C16: in the settings.json the editor step writes, the default formatter
\* of typescript and of typescriptreact is the prettier extension when only
\* prettier is on, the eslint extension when only eslint is on, and the
\* eslint extension when both are on; when neither is on no default
\* formatter is written.  The extensions.json the step writes recommends
\* the prettier extension whenever prettier is on, eslint on or off.
C16_DefaultFormatter ==
    /\ written.settings # NoSettings =>
          \A lang \in {"typescript", "typescriptreact"} :
              /\ (cfg.prettier = T /\ cfg.eslint = F) =>
                    DefaultFormatter(lang) = "esbenp.prettier-vscode"
              /\ (cfg.prettier = F /\ cfg.eslint = T) =>
                    DefaultFormatter(lang) = "dbaeumer.vscode-eslint"
              /\ (cfg.prettier = T /\ cfg.eslint = T) =>
                    DefaultFormatter(lang) = "dbaeumer.vscode-eslint"
              /\ (cfg.prettier = F /\ cfg.eslint = F) =>
                    DefaultFormatter(lang) = Undef
    /\ written.extensions # <<>> =>
          (cfg.prettier = T =>
              "esbenp.prettier-vscode" \in Range(written.extensions))

C16_Witness ==
    /\ pc = "done"
    /\ cfg.vscode = T /\ cfg.eslint = T /\ cfg.prettier = T
    /\ DefaultFormatter("typescript") = "dbaeumer.vscode-eslint"
    /\ DefaultFormatter("typescriptreact") = "dbaeumer.vscode-eslint"
    /\ written.extensions = <<"roblox-ts.vscode-roblox-ts",
                              "dbaeumer.vscode-eslint",
                              "esbenp.prettier-vscode">>

\* the condition under which C17 has the package manager question shown:
\* more than one manager of the registry is available (yarn and yarn3 are
\* two managers, both available when the yarn tool is), and neither
\* --packageManager nor --yes is given
ManagerPromptDue ==
    /\ Cardinality({pm \in PackageManagers : ManagerAvailable(pm)}) > 1
    /\ argv.packageManager = Undef
    /\ argv.yes = Undef

\* C17: the package manager question is shown only when more than one
\* manager is available and neither --packageManager nor --yes is given,
\* and once the questions are through it has been shown whenever that is
\* so; its choice list, and so its answer, holds only managers the probe
\* reported as available; when it was not shown and --packageManager is not
\* given, the package manager resolves to npm.
C17_ManagerPrompt ==
    /\ "packageManager" \in prompted =>
          /\ ManagerPromptDue
          /\ \A pm \in Choices("packageManager", avail) :
                ManagerAvailable(pm)
          /\ answers.packageManager # Undef =>
                ManagerAvailable(answers.packageManager)
    /\ (qi > Len(Questions) /\ ManagerPromptDue) =>
          "packageManager" \in prompted
    /\ (Resolved /\ "packageManager" \notin prompted
        /\ argv.packageManager = Undef) =>
          cfg.packageManager = PackageManager.NPM

C17_Witness ==
    /\ Resolved
    /\ "packageManager" \in prompted
    /\ avail.npm = F /\ avail.pnpm = T /\ avail.yarn = T
    /\ answers.packageManager = PackageManager.Yarn3
    /\ cfg.packageManager = PackageManager.Yarn3

GitInitFailed ==
    \E i \in 1..Len(ops) : ops[i].cmd = "git init" /\ ops[i].ok = F

\* the positions in ops of the copies of the git step to path p
GitCopies(p) ==
    {i \in 1..Len(ops) :
        ops[i].step = "Initializing Git.." /\ ops[i].fn = "copy"
        /\ ops[i].path = p}

\* C18: when `git init` fails, init is rejected by the git step with an
\* error whose message is the message of the failed command followed by the
\* Git hint, and neither .gitignore nor .gitattributes is copied; the hint
\* is on no other error.  When the git step is on and the installation of
\* the dependencies has started, `git init` has succeeded and both files
\* have been copied before it.
C18_GitStep ==
    /\ GitInitFailed =>
          /\ pc = "failed"
          /\ error.op.step = "Initializing Git.."
          /\ Message(error) =
                <<"Command \"git init\" exited with code", GitHint>>
          /\ GitCopies(paths.gitignore) = {}
          /\ GitCopies(paths.gitattributes) = {}
    /\ (pc = "failed" /\ GitHint \in Range(Message(error))) => GitInitFailed
    /\ \A k \in 1..Len(ops) :
          (cfg.git = T /\ ops[k].step = "Installing dependencies..") =>
              /\ ~GitInitFailed
              /\ \E i \in GitCopies(paths.gitignore) :
                    i < k /\ ops[i].ok = T
                    /\ ops[i].from = configTemplate.gitignore
              /\ \E i \in GitCopies(paths.gitattributes) :
                    i < k /\ ops[i].ok = T
                    /\ ops[i].from = configTemplate.gitattributes

C18_Witness ==
    /\ pc = "failed"
    /\ GitInitFailed
    /\ avail.git = F /\ argv.git = T
    /\ Message(error) = <<"Command \"git init\" exited with code", GitHint>>
    /\ Len(ops) = 4

\* C19 as stated: whatever the resolved configuration, the candidate list
\* holds each of the thirteen fixed paths, and a regular file at one of
\* them when init starts aborts init, also when the toggle or the package
\* manager that would write the file is off or not chosen: no operation of
\* the pipeline is invoked, a conflict loop that runs to its end has
\* recorded the path, and init fails, with a conflict error that lists the
\* path or with the error of a readdir call of the loop that rejected.
C19_FixedCandidates ==
    /\ pc \in {"check", "stat", "readdir", "step", "done", "failed"} =>
          FixedCandidates \subseteq
              {PathRelative(Cwd, pathValues[j]) : j \in 1..Len(pathValues)}
    /\ \A p \in FixedCandidates :
          fs[p] = "file" =>
              /\ ops = <<>>
              /\ pc # "done"
              /\ CheckComplete => p \in Range(existingPaths)
              /\ pc = "failed" =>
                    \/ error.kind = "conflict" /\ p \in Range(error.paths)
                    \/ CheckRejected

\* C20: the question of a toggle is shown only when the toggle's own flag
\* and --yes are both undefined; with --yes given as false and the
\* toggle's flag not given, the question is not shown and the toggle
\* resolves to off; a toggle whose flag is not given and whose question was
\* not shown resolves to on only when --yes is true.
C20_TogglePrompt ==
    \A o \in Toggles :
        /\ o \in prompted => (argv[o] = Undef /\ argv.yes = Undef)
        /\ (argv.yes = F /\ argv[o] = Undef) =>
              /\ o \notin prompted
              /\ Resolved => cfg[o] = F
        /\ (Resolved /\ argv[o] = Undef /\ o \notin prompted
            /\ cfg[o] = T) =>
              argv.yes = T

C20_Witness ==
    /\ Resolved
    /\ argv.yes = F
    /\ argv.git = Undef /\ argv.eslint = Undef /\ argv.vscode = Undef
    /\ argv.prettier = T
    /\ avail.git = T
    /\ prompted = {}
    /\ cfg.git = F /\ cfg.eslint = F /\ cfg.vscode = F /\ cfg.prettier = T

=============================================================================
